---- MODULE Spec2Model ----
(***************************************************************************)
(* Query processor of tiedot (db/query.go).                                *)
(*                                                                         *)
(* A query is a JSON-decoded value.  JSON values are modelled as tagged    *)
(* records [t, v]: t is the Go dynamic type ("vec" for []interface{},      *)
(* "str" for string, "num" for float64, "map" for map[string]interface{}), *)
(* v the payload.  Every operator returns the triple                       *)
(*   [result, err, trace]                                                  *)
(* result : the map[int]struct{} the caller's pointer designates on return *)
(* err    : the name of the returned error value, "nil" for none           *)
(* trace  : the lock operations, index reads and document reads the call   *)
(*          performed, in program order.                                   *)
(***************************************************************************)
EXTENDS Integers, Sequences, FiniteSets, TLC

VARIABLES docs, hts, indexPaths, approxDocCount,
          q, start, result, err, trace,
          pc, pending, shardHeld, schemaReaders, schemaWriter, rlocks, runlocks

vars == <<docs, hts, indexPaths, approxDocCount, q, start, result, err, trace,
          pc, pending, shardHeld, schemaReaders, schemaWriter, rlocks, runlocks>>

dbVars == <<docs, hts, indexPaths, approxDocCount>>
lockVars == <<pending, shardHeld, schemaReaders, schemaWriter, rlocks, runlocks>>

---------------------------------------------------------------------------
(* Bounds of the model *)

MaxDocID == 2
MaxEntries == 2
MaxPathEntries == 3
MaxRangeEntries == 2
MaxLockEntries == 2
MaxLimit == 2
MaxSubs == 2
MaxLockSubs == 2
MaxInt == 2

(* Program constants *)

NumParts == 2
SliceSize == 4000
INDEX_PATH_SEP == "!"

DocIDs == 1..MaxDocID
Parts == 0..(NumParts - 1)

---------------------------------------------------------------------------
(* JSON values *)

Str(s) == [t |-> "str", v |-> s]
Num(n) == [t |-> "num", v |-> n]
Vec(s) == [t |-> "vec", v |-> s]
Map(m) == [t |-> "map", v |-> m]

\* fmt.Sprint of a scalar: a number prints its decimal digits, a string itself
Sprint(j) ==
    CASE j.t = "num" -> ToString(j.v)
      [] j.t = "str" -> j.v
      [] OTHER -> "[composite]"

RECURSIVE Join(_, _)
\* strings.Join
Join(vec, sep) ==
    IF Len(vec) = 0 THEN ""
    ELSE IF Len(vec) = 1 THEN vec[1]
    ELSE vec[1] \o sep \o Join(Tail(vec), sep)

\* StrHash: a non-negative hash of a string; it is not injective
StrHash(s) ==
    CASE s = "0" -> 0
      [] s = "1" -> 1
      [] s = "2" -> 2
      [] s = "3" -> 3
      [] s = "4" -> 4
      [] s = "b" -> 1
      [] OTHER -> 5

\* strconv.ParseInt(expr, 10, 64): ok iff expr is a decimal numeral
ParseRange == 0..(MaxDocID + 1)
ParseOk(s) == \E n \in ParseRange : ToString(n) = s
ParseInt(s) == CHOOSE n \in ParseRange : ToString(n) = s

---------------------------------------------------------------------------
(* External collaborators: documents and hash-table shards *)

NoDoc == [exists |-> FALSE, fields |-> <<>>]

\* col.read(id): err # nil when the document does not exist
ReadOk(id) == id \in DOMAIN docs /\ docs[id].exists

\* GetIn(doc, path): the values found at the path
GetIn(doc, vecPath) ==
    IF Len(vecPath) = 1 /\ vecPath[1] \in DOMAIN doc.fields
    THEN doc.fields[vecPath[1]]
    ELSE <<>>

Ids(es) == [i \in 1..Len(es) |-> es[i].id]

\* HashTable.Get(key, limit): the IDs stored under key, at most limit of them
\* when limit > 0
Get(ht, key, limit) ==
    LET m == Ids(SelectSeq(ht, LAMBDA e : e.key = key))
    IN IF limit > 0 /\ Len(m) > limit THEN SubSeq(m, 1, limit) ELSE m

\* HashTable.GetPartition(i, n): the IDs of the i-th of n slices of the table
GetPartition(ht, i, n) ==
    Ids(SubSeq(ht, (i * Len(ht)) \div n + 1, ((i + 1) * Len(ht)) \div n))

\* col.forEachDoc: the IDs of all documents of the collection
AllDocIDs == {id \in DOMAIN docs : docs[id].exists}

---------------------------------------------------------------------------
(* Results and trace events *)

Ev(e, p, k) == [ev |-> e, arg |-> p, key |-> k]

Out(r, e, tr) == [result |-> r, err |-> e, trace |-> tr]

---------------------------------------------------------------------------
(* Argument decoding shared by the predicate operators *)

\* for _, v := range vecPathInterface { vecPath = append(vecPath, fmt.Sprint(v)) }
VecPath(path) == [i \in 1..Len(path.v) |-> Sprint(path.v[i])]

HasLimit(expr) == "limit" \in DOMAIN expr
LimitOk(expr) == HasLimit(expr) => expr["limit"].t = "num"
IntLimit(expr) == IF HasLimit(expr) THEN expr["limit"].v ELSE 0

---------------------------------------------------------------------------
(* Lookup *)

ReadEvents(vals) == [i \in 1..Len(vals) |-> Ev("read", vals[i], "")]

\* a lookup that trusts the index
LookupMatchNoFilter(match, vecPath, lookupStrValue) == TRUE

\* the collision filter of Lookup: the document is readable and holds a value
\* at the path that prints as the lookup value
LookupMatch(match, vecPath, lookupStrValue) ==
    /\ ReadOk(match)
    /\ \E i \in DOMAIN GetIn(docs[match], vecPath) :
           Sprint(GetIn(docs[match], vecPath)[i]) = lookupStrValue

Lookup(lookupValue, expr, R) ==
    IF "in" \notin DOMAIN expr THEN Out(R, "ErrorMissingLookUp", <<>>)
    ELSE IF expr["in"].t # "vec" THEN Out(R, "ErrorExpectingLookup", <<>>)
    ELSE IF ~LimitOk(expr) THEN Out(R, "ErrorExpectingNumber", <<>>)
    ELSE
      LET vecPath == VecPath(expr["in"])
          intLimit == IntLimit(expr)
          lookupStrValue == Sprint(lookupValue)
          lookupValueHash == StrHash(lookupStrValue)
          scanPath == Join(vecPath, INDEX_PATH_SEP)
      IN IF scanPath \notin indexPaths THEN Out(R, "ErrorNeedIndex", <<>>)
         ELSE
           LET num == lookupValueHash % NumParts
               vals == Get(hts[num][scanPath], lookupValueHash, intLimit)
               hits == {vals[i] : i \in {j \in DOMAIN vals :
                            LookupMatch(vals[j], vecPath, lookupStrValue)}}
           IN Out(R \cup hits, "nil",
                  <<Ev("RLock", num, scanPath), Ev("Get", num, scanPath),
                    Ev("RUnlock", num, scanPath)>> \o ReadEvents(vals))

---------------------------------------------------------------------------
(* PathExistence *)

RECURSIVE PathIds(_, _, _, _, _)
\* for _, id := range ids { (*result)[id] = ...; counter++; if counter == intLimit ... }
PathIds(ids, j, R, counter, intLimit) ==
    IF j > Len(ids) THEN [result |-> R, counter |-> counter, stop |-> FALSE]
    ELSE IF counter + 1 = intLimit
         THEN [result |-> R \cup {ids[j]}, counter |-> counter + 1, stop |-> TRUE]
         ELSE PathIds(ids, j + 1, R \cup {ids[j]}, counter + 1, intLimit)

RECURSIVE PathSlices(_, _, _, _, _, _, _, _)
\* for i := 0; i < partDiv; i++ { _, ids := ht.GetPartition(i, partDiv) ... }
PathSlices(part, key, i, partDiv, R, counter, intLimit, tr) ==
    IF i >= partDiv
    THEN [result |-> R, counter |-> counter, stop |-> FALSE, trace |-> tr]
    ELSE LET s == PathIds(GetPartition(hts[part][key], i, partDiv), 1, R,
                          counter, intLimit)
             tr2 == Append(tr, Ev("GetPartition", part, key))
         IN IF s.stop
            THEN [result |-> s.result, counter |-> s.counter, stop |-> TRUE,
                  trace |-> tr2]
            ELSE PathSlices(part, key, i + 1, partDiv, s.result, s.counter,
                            intLimit, tr2)

\* an early return that forgets the unlock
PathEarlyNoUnlock(part, key) == <<>>

\* the unlock on the early return of PathExistence (query.go line 133)
PathEarlyUnlock(part, key) == <<Ev("RUnlock", part, key)>>

RECURSIVE PathParts(_, _, _, _, _, _, _)
\* for iteratePart := 0; iteratePart < src.db.numParts; iteratePart++ { ... }
PathParts(iteratePart, key, partDiv, R, counter, intLimit, tr) ==
    IF iteratePart >= NumParts THEN Out(R, "nil", tr)
    ELSE LET s == PathSlices(iteratePart, key, 0, partDiv, R, counter, intLimit,
                             Append(tr, Ev("RLock", iteratePart, key)))
         IN IF s.stop
            THEN Out(s.result, "nil", s.trace \o PathEarlyUnlock(iteratePart, key))
            ELSE PathParts(iteratePart + 1, key, partDiv, s.result, s.counter,
                           intLimit,
                           Append(s.trace, Ev("RUnlock", iteratePart, key)))

PartDiv ==
    LET d == (approxDocCount \div NumParts) \div SliceSize
    IN IF d = 0 THEN 1 ELSE d

PathExistence(hasPath, expr, R) ==
    IF hasPath.t # "vec" THEN Out(R, "ErrorExpectingPath", <<>>)
    ELSE IF ~LimitOk(expr) THEN Out(R, "ErrorExpectingNumber", <<>>)
    ELSE
      LET vecPath == VecPath(hasPath)
          intLimit == IntLimit(expr)
          jointPath == Join(vecPath, INDEX_PATH_SEP)
      IN IF jointPath \notin indexPaths THEN Out(R, "ErrorNeedIndex", <<>>)
         ELSE PathParts(0, jointPath, PartDiv, R, 0, intLimit, <<>>)

---------------------------------------------------------------------------
(* IntRange *)

\* col.hashScan: one shard read under that shard's read lock
hashScan(idxName, key, limit) ==
    LET p == key % NumParts
    IN [vals |-> Get(hts[p][idxName], key, limit),
        trace |-> <<Ev("RLock", p, idxName), Ev("Get", p, idxName),
                    Ev("RUnlock", p, idxName)>>]

RECURSIVE RangeIds(_, _, _, _, _)
\* a scan whose counter never stops the additions
RangeIdsNoBreak(vals, j, R, counter, intLimit) ==
    IF j > Len(vals) THEN [result |-> R, counter |-> counter]
    ELSE RangeIds(vals, j + 1, R \cup {vals[j]}, counter + 1, intLimit)

\* for _, docID := range vals { if intLimit > 0 && counter == intLimit { break } ... }
RangeIds(vals, j, R, counter, intLimit) ==
    IF j > Len(vals) THEN [result |-> R, counter |-> counter]
    ELSE IF intLimit > 0 /\ counter = intLimit
         THEN [result |-> R, counter |-> counter]
         ELSE RangeIds(vals, j + 1, R \cup {vals[j]}, counter + 1, intLimit)

RECURSIVE RangeScan(_, _, _, _, _, _, _, _)
\* the forward (step = 1) and backward (step = -1) loops over lookupValue
RangeScan(lookupValue, to, step, htPath, R, counter, intLimit, tr) ==
    IF (step = 1 /\ lookupValue > to) \/ (step = -1 /\ lookupValue < to)
    THEN [result |-> R, counter |-> counter, trace |-> tr]
    ELSE LET hashValue == StrHash(ToString(lookupValue))
             scan == hashScan(htPath, hashValue, intLimit)
             s == RangeIds(scan.vals, 1, R, counter, intLimit)
         IN RangeScan(lookupValue + step, to, step, htPath, s.result, s.counter,
                      intLimit, tr \o scan.trace)

\* the "int-to" / "int to" bound of the expression
HasTo(expr) == "int-to" \in DOMAIN expr \/ "int to" \in DOMAIN expr
ToValue(expr) == IF "int-to" \in DOMAIN expr THEN expr["int-to"] ELSE expr["int to"]

\* strings.Join(vecPath, ",") of IntRange
RangeSep == ","

IntRange(intFrom, expr, R) ==
    IF "in" \notin DOMAIN expr THEN Out(R, "ErrorMissingPath", <<>>)
    ELSE IF expr["in"].t # "vec" THEN Out(R, "ErrorExpectingPathIn", <<>>)
    ELSE IF ~LimitOk(expr) THEN Out(R, "ErrorExpectingNumber", <<>>)
    ELSE IF intFrom.t # "num" THEN Out(R, "ErrorExpectingInt", <<>>)
    ELSE IF ~HasTo(expr) THEN Out(R, "ErrorMissing", <<>>)
    ELSE IF ToValue(expr).t # "num" THEN Out(R, "ErrorExpectingInt", <<>>)
    ELSE
      LET vecPath == VecPath(expr["in"])
          intLimit == IntLimit(expr)
          from == intFrom.v
          to == ToValue(expr).v
          htPath == Join(vecPath, RangeSep)
      IN IF htPath \notin indexPaths THEN Out(R, "ErrorNeedIndex", <<>>)
         ELSE LET s == RangeScan(from, to, IF from < to THEN 1 ELSE -1, htPath,
                                 R, 0, intLimit, <<>>)
              IN Out(s.result, "nil", s.trace)

---------------------------------------------------------------------------
(* The recursive evaluator and the set operators *)

\* src.db.schemaLock.RLock(); defer src.db.schemaLock.RUnlock()
SchemaRLock == <<Ev("SchemaRLock", 0, "")>>
SchemaRUnlock == <<Ev("SchemaRUnlock", 0, "")>>

\* for k := range subResult { if _, inBoth := (*result)[k]; inBoth { ... } }
Intersection(subResult, R) == {k \in subResult : k \in R}

\* a complement that keeps the elements found on both sides
SymDiffKeepBoth(subResult, R) == subResult \cup R

\* the two loops of Complement that fill the map complement
SymDiff(subResult, R) ==
    {k \in subResult : k \notin R} \cup {k \in R : k \notin subResult}

RECURSIVE dispatch(_, _)
RECURSIVE UnionLoop(_, _, _)
RECURSIVE IntersectLoop(_, _, _, _)
RECURSIVE ComplementLoop(_, _, _)

\* a recursive call that takes the schema lock again
evalSubLocking(sub, R) ==
    LET o == dispatch(sub, R)
    IN Out(o.result, o.err, SchemaRLock \o o.trace \o SchemaRUnlock)

\* evalQuery with placeSchemaLock = false: the type switch
evalSub(sub, R) == dispatch(sub, R)

\* for _, subExpr := range exprs { if err = evalQuery(subExpr, src, result, false) ... }
UnionLoop(exprs, i, st) ==
    IF i > Len(exprs) THEN st
    ELSE LET o == evalSub(exprs[i], st.result)
             st2 == Out(o.result, o.err, st.trace \o o.trace)
         IN IF o.err # "nil" THEN st2 ELSE UnionLoop(exprs, i + 1, st2)

EvalUnion(exprs, R) == UnionLoop(exprs, 1, Out(R, "nil", <<>>))

EvalAllIDs(R) == Out(R \cup AllDocIDs, "nil", <<>>)

\* the loop of Intersect; st.result is *result, first the flag of the same name
IntersectLoop(subExprVecs, i, first, st) ==
    IF i > Len(subExprVecs) THEN st
    ELSE LET o == evalSub(subExprVecs[i], {})
             tr == st.trace \o o.trace
         IN IF o.err # "nil" THEN Out(st.result, o.err, tr)
            ELSE IF first
                 THEN IntersectLoop(subExprVecs, i + 1, FALSE,
                                    Out(o.result, "nil", tr))
                 ELSE IntersectLoop(subExprVecs, i + 1, FALSE,
                          Out(Intersection(o.result, st.result), "nil", tr))

Intersect(subExprs, R) ==
    IF subExprs.t # "vec" THEN Out(R, "ErrorExpectingSubQuery", <<>>)
    ELSE IntersectLoop(subExprs.v, 1, TRUE, Out(R, "nil", <<>>))

\* the loop of Complement
ComplementLoop(subExprVecs, i, st) ==
    IF i > Len(subExprVecs) THEN st
    ELSE LET o == evalSub(subExprVecs[i], {})
             tr == st.trace \o o.trace
         IN IF o.err # "nil" THEN Out(st.result, o.err, tr)
            ELSE ComplementLoop(subExprVecs, i + 1,
                     Out(SymDiff(o.result, st.result), "nil", tr))

Complement(subExprs, R) ==
    IF subExprs.t # "vec" THEN Out(R, "ErrorExpectingSubQuery", <<>>)
    ELSE ComplementLoop(subExprs.v, 1, Out(R, "nil", <<>>))

\* switch expr := q.(type) of evalQuery
dispatch(expr, R) ==
    CASE expr.t = "vec" -> EvalUnion(expr.v, R)
      [] expr.t = "str" ->
           IF expr.v = "all" THEN EvalAllIDs(R)
           ELSE IF ~ParseOk(expr.v) THEN Out(R, "ErrorInvalidPKID", <<>>)
           ELSE Out(R \cup {ParseInt(expr.v)}, "nil", <<>>)
      [] expr.t = "map" ->
           IF "eq" \in DOMAIN expr.v THEN Lookup(expr.v["eq"], expr.v, R)
           ELSE IF "has" \in DOMAIN expr.v
                THEN PathExistence(expr.v["has"], expr.v, R)
           ELSE IF "n" \in DOMAIN expr.v THEN Intersect(expr.v["n"], R)
           ELSE IF "c" \in DOMAIN expr.v THEN Complement(expr.v["c"], R)
           ELSE IF "int-from" \in DOMAIN expr.v
                THEN IntRange(expr.v["int-from"], expr.v, R)
           ELSE IF "int from" \in DOMAIN expr.v
                THEN IntRange(expr.v["int from"], expr.v, R)
           ELSE Out(R, "ErrorNoOP", <<>>)
      [] OTHER -> Out(R, "nil", <<>>)

evalQuery(expr, R, placeSchemaLock) ==
    LET o == dispatch(expr, R)
    IN IF placeSchemaLock
       THEN Out(o.result, o.err, SchemaRLock \o o.trace \o SchemaRUnlock)
       ELSE o

EvalQuery(expr, R) == evalQuery(expr, R, TRUE)

---------------------------------------------------------------------------
(* Inputs: collections and queries *)

SeqsUpTo(S, n) == UNION {[1..k -> S] : k \in 0..n}
\* sequences without a repeated element
DistinctSeqsUpTo(S, n) ==
    {s \in SeqsUpTo(S, n) : \A i, j \in DOMAIN s : s[i] = s[j] => i = j}

Doc(f) == [exists |-> TRUE, fields |-> f]

\* documents: absent, or holding values at the attribute "a"
DocChoices ==
    {NoDoc,
     Doc([a |-> <<Num(1)>>]),
     Doc([a |-> <<Str("b")>>]),
     Doc([a |-> <<Num(2), Str("1")>>])}

HashKeys == 0..MaxInt

Entries(K, D) == [key : K, id : D]

\* the shard of an index entry is its key modulo the number of partitions
MkHts(es, ip) ==
    [p \in Parts |-> [k \in ip |-> SelectSeq(es, LAMBDA e : e.key % NumParts = p)]]

ApproxCounts == {0, 2 * NumParts * SliceSize}

FixedDocs == [id \in DocIDs |-> IF id = 1 THEN Doc([a |-> <<Num(1)>>])
                                ELSE Doc([a |-> <<Num(2), Str("1")>>])]

NoQuery == [t |-> "none", v |-> 0]

InitCall ==
    /\ q = NoQuery /\ start = {} /\ result = {} /\ err = "nil" /\ trace = <<>>
    /\ pc = "idle" /\ pending = <<>> /\ shardHeld = <<>>
    /\ schemaReaders = 0 /\ schemaWriter = "idle" /\ rlocks = 0 /\ runlocks = 0

PathA == Vec(<<Str("a")>>)
Limits == 0..MaxLimit

WithLimit(m, l) == IF l = 0 THEN m ELSE m @@ [limit |-> Num(l)]

\* predicate queries
EqQ(v, path, l) == Map(WithLimit([eq |-> v, in |-> path], l))
HasQ(path, l) == Map(WithLimit([has |-> path], l))
RangeQ(path, f, t, l) ==
    Map(WithLimit(("int-from" :> Num(f)) @@ ("int-to" :> Num(t)) @@ [in |-> path], l))
RangeQLegacy(path, f, t, l) ==
    Map(WithLimit(("int from" :> Num(f)) @@ ("int to" :> Num(t)) @@ [in |-> path], l))

\* set-algebra queries
IdAtoms == {Str(ToString(d)) : d \in DocIDs}
Atoms == IdAtoms \cup {Str("x"), HasQ(PathA, 1)}
InnerLists == {<<>>} \cup {<<a>> : a \in IdAtoms}
Objects == {Map([n |-> Vec(l)]) : l \in InnerLists}
             \cup {Map([c |-> Vec(l)]) : l \in InnerLists}
Elems == Atoms \cup Objects
OuterLists == SeqsUpTo(Elems, MaxSubs)
SetQueries ==
    {Vec(l) : l \in OuterLists}
      \cup {Map([n |-> Vec(l)]) : l \in OuterLists}
      \cup {Map([c |-> Vec(l)]) : l \in OuterLists}
      \cup {Str("all"), Map([n |-> Str("x")]), Map([c |-> Str("x")]),
            Map([x |-> Num(1)]), Num(1)}

LookupValues == {Num(1), Str("1"), Str("b"), Num(2)}
LookupQueries == {EqQ(v, PathA, l) : v \in LookupValues, l \in Limits}
HasQueries == {HasQ(PathA, l) : l \in Limits}
RangeQueries ==
    {RangeQ(PathA, f, t, l) : f \in 0..MaxInt, t \in 0..MaxInt, l \in Limits}
      \cup {RangeQLegacy(PathA, 0, MaxInt, 1)}

\* paths of one and two segments; a segment may contain a comma
Paths == {Vec(<<Str("a")>>), Vec(<<Str("b")>>), Vec(<<Str("a"), Str("b")>>),
          Vec(<<Str("a,b")>>)}
\* the key under which the collection records an indexed path
IndexKey(path) == Join(VecPath(path), INDEX_PATH_SEP)
IndexSets == {{IndexKey(p) : p \in ps} : ps \in SUBSET Paths}
IndexQueries ==
    {EqQ(Num(1), p, l) : p \in Paths, l \in Limits}
      \cup {HasQ(p, l) : p \in Paths, l \in Limits}
      \cup {RangeQ(p, f, t, l) : p \in Paths, f \in 0..1, t \in 0..1, l \in Limits}

---------------------------------------------------------------------------
(* The state machine: one call of EvalQuery on a collection *)

\* EvalQuery(q, src, result) run to completion
Call(qq, R) ==
    /\ pc = "idle"
    /\ LET o == EvalQuery(qq, R)
       IN /\ q' = qq /\ start' = R
          /\ result' = o.result /\ err' = o.err /\ trace' = o.trace
    /\ pc' = "done"
    /\ UNCHANGED <<dbVars, lockVars>>

EvalSetQuery == pc = "idle" /\ \E qq \in SetQueries, R \in SUBSET DocIDs : Call(qq, R)
EvalLookupQuery == pc = "idle" /\ \E qq \in LookupQueries, R \in {{}, {MaxDocID}} : Call(qq, R)
EvalHasQuery == pc = "idle" /\ \E qq \in HasQueries : Call(qq, {})
EvalRangeQuery == pc = "idle" /\ \E qq \in RangeQueries, R \in {{}, {MaxDocID}} : Call(qq, R)
EvalIndexQuery == pc = "idle" /\ \E qq \in IndexQueries, R \in {{}, {MaxDocID}} : Call(qq, R)

\* set algebra over a fixed collection
InitSet ==
    /\ InitCall
    /\ docs = FixedDocs /\ indexPaths = {"a"} /\ approxDocCount = 0
    /\ hts = MkHts(<<[key |-> 1, id |-> 1], [key |-> 2, id |-> 2]>>, indexPaths)
NextSet == EvalSetQuery
SpecSet == InitSet /\ [][NextSet]_vars

\* Lookup over every collection and index content
InitLookup ==
    /\ InitCall
    /\ docs \in [DocIDs -> DocChoices]
    /\ indexPaths = {"a"} /\ approxDocCount = 0
    /\ \E es \in SeqsUpTo(Entries({1, 2}, DocIDs), MaxEntries) :
           hts = MkHts(es, indexPaths)
NextLookup == EvalLookupQuery
SpecLookup == InitLookup /\ [][NextLookup]_vars

\* PathExistence over every index content and slice count
InitPath ==
    /\ InitCall
    /\ docs = FixedDocs /\ indexPaths = {"a"}
    /\ approxDocCount \in ApproxCounts
    /\ \E es \in DistinctSeqsUpTo(Entries({0, 1, 2}, DocIDs), MaxPathEntries) :
           hts = MkHts(es, indexPaths)
NextPath == EvalHasQuery
SpecPath == InitPath /\ [][NextPath]_vars

\* IntRange over every index content
InitRange ==
    /\ InitCall
    /\ docs = FixedDocs /\ indexPaths = {"a"} /\ approxDocCount = 0
    /\ \E es \in DistinctSeqsUpTo(Entries(HashKeys, DocIDs), MaxRangeEntries) :
           hts = MkHts(es, indexPaths)
NextRange == EvalRangeQuery
SpecRange == InitRange /\ [][NextRange]_vars

\* the predicate operators over every set of indexed paths
InitIndex ==
    /\ InitCall
    /\ docs = FixedDocs /\ approxDocCount = 0
    /\ indexPaths \in IndexSets
    /\ hts = MkHts(<<[key |-> 1, id |-> 1], [key |-> 0, id |-> 2]>>, indexPaths)
NextIndex == EvalIndexQuery
SpecIndex == InitIndex /\ [][NextIndex]_vars

---------------------------------------------------------------------------
(* The same call, one lock operation or read at a time, beside a schema    *)
(* writer (index creation or removal) that takes the schema lock in write  *)
(* mode.  pending holds the operations the call has still to perform.      *)

LockPreds ==
    {EqQ(Num(1), PathA, 0), HasQ(PathA, 0), HasQ(PathA, 1),
     RangeQ(PathA, 0, 1, 1), Str("x")}
LockLists == SeqsUpTo(LockPreds, MaxLockSubs)
LockQueries ==
    LockPreds
      \cup {Vec(l) : l \in LockLists}
      \cup {Map([n |-> Vec(l)]) : l \in LockLists}
      \cup {Vec(<<Map([c |-> Vec(l)])>>) : l \in LockLists}

InitLock ==
    /\ InitCall
    /\ docs = FixedDocs /\ indexPaths = {"a"}
    /\ approxDocCount \in ApproxCounts
    /\ \E es \in SeqsUpTo(Entries({0, 1}, {1}), MaxLockEntries) :
           hts = MkHts(es, indexPaths)

\* the caller enters EvalQuery
Begin ==
    /\ pc = "idle"
    /\ \E qq \in LockQueries :
         /\ q' = qq /\ start' = {}
         /\ pending' = EvalQuery(qq, start').trace
    /\ pc' = "running"
    /\ UNCHANGED <<dbVars, result, err, trace, shardHeld, schemaReaders,
                   schemaWriter, rlocks, runlocks>>

Advance ==
    /\ pending' = Tail(pending)
    /\ trace' = Append(trace, Head(pending))
    /\ UNCHANGED <<dbVars, q, start, result, err, pc, schemaWriter>>

NextIs(e) == pc = "running" /\ pending # <<>> /\ Head(pending).ev = e

\* src.db.schemaLock.RLock(): blocks while a writer holds or awaits the lock
StepSchemaRLock ==
    /\ NextIs("SchemaRLock") /\ schemaWriter = "idle"
    /\ schemaReaders' = schemaReaders + 1 /\ rlocks' = rlocks + 1
    /\ Advance /\ UNCHANGED <<shardHeld, runlocks>>

\* the deferred src.db.schemaLock.RUnlock()
StepSchemaRUnlock ==
    /\ NextIs("SchemaRUnlock")
    /\ schemaReaders' = schemaReaders - 1 /\ runlocks' = runlocks + 1
    /\ Advance /\ UNCHANGED <<shardHeld, rlocks>>

\* ht.Lock.RLock()
StepShardRLock ==
    /\ NextIs("RLock")
    /\ shardHeld' = Append(shardHeld, <<Head(pending).arg, Head(pending).key>>)
    /\ Advance /\ UNCHANGED <<schemaReaders, rlocks, runlocks>>

\* ht.Lock.RUnlock()
StepShardRUnlock ==
    /\ NextIs("RUnlock")
    /\ \E i \in DOMAIN shardHeld :
         /\ shardHeld[i] = <<Head(pending).arg, Head(pending).key>>
         /\ shardHeld' = SubSeq(shardHeld, 1, i - 1)
                           \o SubSeq(shardHeld, i + 1, Len(shardHeld))
    /\ Advance /\ UNCHANGED <<schemaReaders, rlocks, runlocks>>

\* ht.Get / ht.GetPartition
StepIndexRead ==
    /\ (NextIs("Get") \/ NextIs("GetPartition"))
    /\ Advance /\ UNCHANGED <<shardHeld, schemaReaders, rlocks, runlocks>>

\* src.read(match, false)
StepReadDoc ==
    /\ NextIs("read")
    /\ Advance /\ UNCHANGED <<shardHeld, schemaReaders, rlocks, runlocks>>

\* EvalQuery returns to its caller
Return ==
    /\ pc = "running" /\ pending = <<>>
    /\ LET o == EvalQuery(q, start)
       IN result' = o.result /\ err' = o.err
    /\ pc' = "done"
    /\ UNCHANGED <<dbVars, q, start, trace, lockVars>>

\* a schema change asks for the schema lock in write mode, gets it once no
\* reader holds it, and gives it back
WriterRequest ==
    /\ schemaWriter = "idle"
    /\ schemaWriter' = "waiting"
    /\ UNCHANGED <<dbVars, q, start, result, err, trace, pc, pending, shardHeld,
                   schemaReaders, rlocks, runlocks>>
WriterAcquire ==
    /\ schemaWriter = "waiting" /\ schemaReaders = 0
    /\ schemaWriter' = "holding"
    /\ UNCHANGED <<dbVars, q, start, result, err, trace, pc, pending, shardHeld,
                   schemaReaders, rlocks, runlocks>>
WriterRelease ==
    /\ schemaWriter = "holding"
    /\ schemaWriter' = "idle"
    /\ UNCHANGED <<dbVars, q, start, result, err, trace, pc, pending, shardHeld,
                   schemaReaders, rlocks, runlocks>>

NextLock ==
    \/ Begin \/ StepSchemaRLock \/ StepSchemaRUnlock \/ StepShardRLock
    \/ StepShardRUnlock \/ StepIndexRead \/ StepReadDoc \/ Return
    \/ WriterRequest \/ WriterAcquire \/ WriterRelease
SpecLock == InitLock /\ [][NextLock]_vars

---------------------------------------------------------------------------
(* Properties *)

Done == pc = "done"
IsMapWith(k) == q.t = "map" /\ k \in DOMAIN q.v
SubsOf(k) == q.v[k].v
SubsOk(subs) == \A i \in DOMAIN subs : evalSub(subs[i], {}).err = "nil"
Min(a, b) == IF a < b THEN a ELSE b
Permute(s, p) == [i \in DOMAIN s |-> s[p[i]]]
Range(s) == {s[i] : i \in DOMAIN s}

\* C1: a union of error-free sub-expressions yields the same Result Set for
\* every permutation of the sub-expressions, that set is the starting set
\* joined with what each sub-expression yields on its own, and the Result Set
\* never loses an element as one more sub-expression is evaluated.
UnionCommutativeMonotone ==
    (Done /\ q.t = "vec" /\ SubsOk(q.v)) =>
        /\ \A p \in Permutations(DOMAIN q.v) :
               EvalUnion(Permute(q.v, p), start).result = result
        /\ result = start \cup UNION {evalSub(q.v[i], {}).result : i \in DOMAIN q.v}
        /\ \A i \in DOMAIN q.v :
               EvalUnion(SubSeq(q.v, 1, i - 1), start).result
                   \subseteq EvalUnion(SubSeq(q.v, 1, i), start).result

\* C4: after Intersect over error-free sub-expressions the Result Set is the
\* intersection of the sets the sub-expressions evaluate to on their own, and
\* it is empty for an empty list.
IntersectIsIntersection ==
    (Done /\ IsMapWith("n") /\ q.v["n"].t = "vec" /\ SubsOk(SubsOf("n"))) =>
        LET subs == SubsOf("n")
        IN IF Len(subs) = 0 THEN result = {}
           ELSE result = {k \in evalSub(subs[1], {}).result :
                             \A i \in DOMAIN subs : k \in evalSub(subs[i], {}).result}

\* C5: Complement of [A] applied to an empty Result Set leaves evaluate(A) in
\* it, and Complement of [A, A] leaves every starting Result Set as it was.
ComplementSelfInverse ==
    (Done /\ IsMapWith("c") /\ q.v["c"].t = "vec" /\ err = "nil") =>
        LET subs == SubsOf("c")
        IN /\ (Len(subs) = 1 /\ start = {}) => result = evalSub(subs[1], {}).result
           /\ (Len(subs) = 2 /\ subs[1] = subs[2]) => result = start

ComplementTwiceReached ==
    /\ Done /\ IsMapWith("c") /\ q.v["c"].t = "vec" /\ err = "nil"
    /\ Len(SubsOf("c")) = 2 /\ SubsOf("c")[1] = SubsOf("c")[2]
    /\ start # {} /\ result = start
    /\ evalSub(SubsOf("c")[1], {}).result \notin {{}, start}

\* C7: an Intersect or a Complement that fails because a sub-expression
\* returns an error leaves the caller's Result Set as it was before the call.
SetOperatorAbortKeepsResult ==
    (Done /\ (IsMapWith("n") \/ IsMapWith("c")) /\ err # "nil") => result = start

---------------------------------------------------------------------------
\* the path a predicate query refers to
PathOf(m) == IF "eq" \in DOMAIN m THEN m["in"]
             ELSE IF "has" \in DOMAIN m THEN m["has"] ELSE m["in"]
IsPredicate == q.t = "map" /\ (\E k \in {"eq", "has", "int-from", "int from"} :
                                  k \in DOMAIN q.v)
ShardEvents == {i \in DOMAIN trace :
                   trace[i].ev \in {"RLock", "RUnlock", "Get", "GetPartition"}}
\* every document ID stored in the index of a key, over all shards
StoredIds(key) == UNION {Range(Ids(hts[p][key])) : p \in Parts}

\* C2: PathExistence on an indexed path with limit L > 0, started on an empty
\* Result Set, returns min(L, number of distinct document IDs in the index)
\* document IDs.
PathExistenceExactSize ==
    (Done /\ IsMapWith("has") /\ IntLimit(q.v) > 0 /\ start = {} /\ err = "nil") =>
        Cardinality(result) = Min(IntLimit(q.v), Cardinality(StoredIds("a")))

\* C3: every document ID Lookup adds belongs to a readable document holding
\* at the path a value that prints as the target prints, and a colliding or
\* unreadable candidate never makes the query fail.
LookupNoFalsePositives ==
    (Done /\ IsMapWith("eq")) =>
        /\ err = "nil"
        /\ \A id \in result \ start :
             /\ id \in DOMAIN docs /\ docs[id].exists
             /\ "a" \in DOMAIN docs[id].fields
             /\ \E i \in DOMAIN docs[id].fields["a"] :
                    Sprint(docs[id].fields["a"][i]) = Sprint(q.v["eq"])

\* a lookup that accepted one candidate and rejected a readable one whose
\* value only collides on the hash
LookupCollisionRejected ==
    /\ Done /\ IsMapWith("eq") /\ start = {} /\ result # {}
    /\ \E i \in DOMAIN trace :
         /\ trace[i].ev = "read" /\ trace[i].arg \notin result
         /\ docs[trace[i].arg].exists

\* C6: Lookup, PathExistence and IntRange with well-formed arguments fail
\* with ErrorNeedIndex when the index key of their path is not an indexed
\* path; then no shard is locked or read and the Result Set is unchanged.
UnindexedPathRejected ==
    (Done /\ IsPredicate /\ IndexKey(PathOf(q.v)) \notin indexPaths) =>
        /\ err = "ErrorNeedIndex"
        /\ result = start
        /\ ShardEvents = {}

\* C10: IntRange with a positive limit L adds at most L document IDs over the
\* whole range, in either direction, and still looks up every integer of the
\* range.
RangeFrom == IF "int-from" \in DOMAIN q.v THEN q.v["int-from"].v ELSE q.v["int from"].v
RangeTo == ToValue(q.v).v
RangeSpan == IF RangeFrom < RangeTo THEN RangeTo - RangeFrom + 1
             ELSE RangeFrom - RangeTo + 1
IsRange == IsMapWith("int-from") \/ IsMapWith("int from")
IntRangeLimit ==
    (Done /\ IsRange /\ IntLimit(q.v) > 0) =>
        /\ err = "nil"
        /\ Cardinality(result \ start) <= IntLimit(q.v)
        /\ Cardinality({i \in DOMAIN trace : trace[i].ev = "Get"}) = RangeSpan

\* a backward scan whose limit was reached before the last integer, which
\* holds an ID that was left out
IntRangeLimitReached ==
    /\ Done /\ IsRange /\ IntLimit(q.v) > 0 /\ start = {}
    /\ RangeFrom > RangeTo
    /\ Cardinality(result) = IntLimit(q.v)
    /\ Len(Get(hts[StrHash(ToString(RangeFrom)) % NumParts]["a"],
               StrHash(ToString(RangeFrom)), 0)) >= IntLimit(q.v)
    /\ \E id \in Range(Get(hts[StrHash(ToString(RangeTo)) % NumParts]["a"],
                           StrHash(ToString(RangeTo)), 0)) : id \notin result

\* C8: the query holds at most one shard read lock at a time, none while it
\* reads a document, and none when the operator has returned.
ShardLocksOneAtATime ==
    /\ Len(shardHeld) <= 1
    /\ NextIs("read") => shardHeld = <<>>
    /\ (pc = "running" /\ pending = <<>>) => shardHeld = <<>>
    /\ Done => shardHeld = <<>>

\* PathExistence has returned from the middle of the first shard
PathExistenceLeftEarly ==
    /\ Done /\ q = HasQ(PathA, 1) /\ Len(hts[0]["a"]) >= 2
    /\ Cardinality({i \in DOMAIN trace : trace[i].ev = "RLock"}) = 1
    /\ shardHeld = <<>>

\* C9: the schema lock is read-locked once, before anything else, by the
\* outermost call only, stays held until the evaluation has finished, and is
\* released once on every exit path; a writer never waits for a returned query.
SchemaLockOnce ==
    /\ rlocks <= 1 /\ runlocks <= rlocks
    /\ schemaReaders = rlocks - runlocks
    /\ trace # <<>> => trace[1].ev = "SchemaRLock"
    /\ (pc = "running" /\ pending # <<>> /\ rlocks = 1) => schemaReaders = 1
    /\ Done => (rlocks = 1 /\ runlocks = 1 /\ schemaReaders = 0)
    /\ schemaWriter = "holding" => schemaReaders = 0

\* a nested query that failed has returned and the writer got the lock
SchemaLockFreedAfterError ==
    /\ Done /\ err # "nil" /\ q.t = "vec" /\ Len(q.v) = 1 /\ q.v[1].t = "map"
    /\ runlocks = 1 /\ schemaWriter = "holding"

====
